---- MODULE Spec2Model ----
(***************************************************************************)
(* Model of the comparison-trace observer (libafl/src/observers/cmp.rs),   *)
(* of the mutational stages (libafl/src/stages/mutational.rs) and of the   *)
(* stats stage (libafl/src/stages/stats.rs).                               *)
(*                                                                         *)
(* Unsigned integers are little-endian sequences of bytes of the width of  *)
(* their type (u8: 1 byte, u16: 2, u32: 4, u64: 8), so that widening and   *)
(* wrapping arithmetic are computed at their true width.                   *)
(***************************************************************************)
EXTENDS Integers, Sequences, FiniteSets, TLC

VARIABLES
    cmp_map,      \* StdCmpObserver.cmp_map: per site, hit count and logged ring
    size,         \* StdCmpObserver.size: Option<usize> (externally tracked count)
    add_meta,     \* StdCmpObserver.add_meta
    meta,         \* the run state's CmpValuesMetadata slot: Option<list>
    obs_ret,      \* result of the observer's last pre_exec / post_exec
    running,      \* the target is executing (between pre_exec and post_exec)
    reductions,   \* post_exec calls since the map was last reset (at most 2 counted)
    logged,       \* comparisons logged by the target so far
    profile,      \* which kind of comparisons the instrumented target performs
    max_iterations,     \* StdMutationalStage.max_iterations
    current_corpus_id,  \* the run state's current corpus id: Option<CorpusId>
    tries,        \* per stage name, the persisted retry counter: Option<usize>
    exits,        \* per stage name, abnormal exits since its progress was cleared
    phase,        \* where the stage driver is: "out", "in" (performing), "skip"
    stage,        \* the stage the driver is at
    pc,           \* position inside perform
    num,          \* the drawn iteration count, or the size of the batch
    iter,         \* index of the current iteration / batch member
    corpus_id,    \* the Option<CorpusId> returned by the last evaluate_input
    trace,        \* the calls perform has made since it was entered
    ret,          \* what the last perform returned
    cleared_from, \* the stage name and counter the last clear_progress removed
    has_fuzzed_size,  \* StatsStage.has_fuzzed_size
    is_favored_size,  \* StatsStage.is_favored_size
    own_finds_size,   \* StatsStage.own_finds_size
    imported_size,    \* StatsStage.imported_size
    corpus,       \* the corpus: per entry, scheduled_count and IsFavoredMetadata
    imported,     \* the run state's count of imported testcases
    overflow_checks,  \* the build panics on integer overflow (debug) or wraps
    instances,    \* the stage instances alive in the process: kind and name
    MUTATIONAL_STAGE_ID,        \* static mut MUTATIONAL_STAGE_ID
    MULTI_MUTATIONAL_STAGE_ID,  \* static mut MULTI_MUTATIONAL_STAGE_ID
    arg_buf,      \* the buffer handed to CmplogBytes::from_buf_and_len
    arg_len,      \* the length handed to CmplogBytes::from_buf_and_len
    cmplog_bytes, \* the CmplogBytes built from them: Option<{buf, len}>
    slice_ret,    \* what as_slice returned for it: Option<byte sequence>
    len_ret,      \* what len returned for it: Option<u8>
    arg_val,      \* the CmpValues handed to is_numeric and to_u64_tuple: Option
    numeric_ret,  \* what is_numeric returned for it: Option<bool>
    tuple_ret,    \* what to_u64_tuple returned for it: Option<Option<(u64, u64)>>
    header,       \* AFLppCmpLogHeader.data: [u8; 2]
    written,      \* per bitfield of the header, the value its setter was last given
    guards,       \* the guard cells the instrumentation placed, by address
    MAX_EDGES_FOUND,  \* static mut MAX_EDGES_FOUND
    registered,   \* the guard ranges __sanitizer_cov_trace_pc_guard_init has numbered
    aborted       \* the process was aborted by a failed assertion

cmpVars == <<cmp_map, size, add_meta, meta, obs_ret, running, reductions, logged, profile>>

stageVars == <<max_iterations, current_corpus_id, tries, exits, phase, stage, pc, num,
               iter, corpus_id, trace, ret, cleared_from>>

statsVars == <<has_fuzzed_size, is_favored_size, own_finds_size, imported_size, corpus,
               imported, overflow_checks>>

nameVars == <<instances, MUTATIONAL_STAGE_ID, MULTI_MUTATIONAL_STAGE_ID>>

bytesVars == <<arg_buf, arg_len, cmplog_bytes, slice_ret, len_ret>>

valueVars == <<arg_val, numeric_ret, tuple_ret>>

headerVars == <<header, written>>

guardVars == <<guards, MAX_EDGES_FOUND, registered, aborted>>

\* what the observer's operations leave alone
notCmpVars == <<stageVars, statsVars, nameVars, bytesVars, valueVars, headerVars, guardVars>>

\* what the mutational stages' operations leave alone
notStageVars == <<cmpVars, statsVars, nameVars, bytesVars, valueVars, headerVars, guardVars>>

\* what the stats stage leaves alone besides the driver's and its own state
notStagesVars == <<cmpVars, nameVars, bytesVars, valueVars, headerVars, guardVars>>

\* what building and cloning stages leaves alone
notNameVars == <<cmpVars, stageVars, statsVars, bytesVars, valueVars, headerVars, guardVars>>

\* what the operations of CmplogBytes leave alone
notBytesVars == <<cmpVars, stageVars, statsVars, nameVars, valueVars, headerVars, guardVars>>

\* what the operations of CmpValues leave alone
notValueVars == <<cmpVars, stageVars, statsVars, nameVars, bytesVars, headerVars, guardVars>>

\* what the accessors of the header leave alone
notHeaderVars == <<cmpVars, stageVars, statsVars, nameVars, bytesVars, valueVars, guardVars>>

\* what the sanitizer coverage callbacks leave alone
notGuardVars == <<cmpVars, stageVars, statsVars, nameVars, bytesVars, valueVars, headerVars>>

vars == <<cmpVars, stageVars, statsVars, nameVars, bytesVars, valueVars, headerVars,
          guardVars>>

----------------------------------------------------------------------------
(* Bounds of the model *)

\* depth of the per-site ring of logged operand pairs
RingDepth == 5

\* comparisons the target logs in one modelled window
MaxLogged == 8

\* the comparison sites of the map
Sites == {0, 1}

\* the largest max_iterations a stage is built with
MaxIter == 3

\* the largest batch multi_mutate returns
MaxBatch == 2

\* the entries the stats stage counts as fuzzed in one modelled window
MaxFuzzed == 2

\* the stage instances built or cloned in one process
MaxInstances == 4

\* the last of the buffer patterns handed to from_buf_and_len
MaxPattern == 1

\* the guard cells of the instrumented modules
NumGuards == 5

\* the largest byte, besides 255, the sampled operands are made of
SampleByteMax == 1

\* the largest small value a header field is set to
MaxFieldSample == 2

\* the entries of the largest corpus the stats stage is run on
MaxCorpus == 2

\* the rounds the fuzzer's loop counts for an entry
MaxScheduled == 1

\* the length of the edges map, EDGES_MAP.len(), smaller than the number
\* of guards so that the map can run out
EdgesMapLen == 4

\* the corpus ids evaluate_input may return
CorpusIds == {7}

----------------------------------------------------------------------------
(* Option<T> is a sequence of at most one element *)

None == <<>>

Some(x) == <<x>>

IsSome(o) == Len(o) = 1

Unwrap(o) == o[1]

----------------------------------------------------------------------------
(* Fixed-width unsigned integers *)

\* the little-endian bytes of n < 65536 at a width of w bytes
Le(n, w) == [k \in 1..w |-> IF k = 1 THEN n % 256 ELSE IF k = 2 THEN n \div 256 ELSE 0]

\* u64::from(x): zero-extension to 8 bytes
U64FromLowByte(x) == [k \in 1..8 |-> IF k = 1 THEN x[1] ELSE 0]

U64From(x) == [k \in 1..8 |-> IF k <= Len(x) THEN x[k] ELSE 0]

\* x.wrapping_add(1) at the width of x
WrappingAdd1(x) ==
    [k \in 1..Len(x) |->
        IF \A j \in 1..(k - 1) : x[j] = 255 THEN (x[k] + 1) % 256 ELSE x[k]]

\* x.wrapping_sub(1) at the width of x
WrappingSub1(x) ==
    [k \in 1..Len(x) |->
        IF \A j \in 1..(k - 1) : x[j] = 0 THEN (x[k] + 255) % 256 ELSE x[k]]

----------------------------------------------------------------------------
(* CmpValues *)

U8(a, b) == [kind |-> "U8", v0 |-> Le(a, 1), v1 |-> Le(b, 1)]

U16(a, b) == [kind |-> "U16", v0 |-> Le(a, 2), v1 |-> Le(b, 2)]

U32(a, b) == [kind |-> "U32", v0 |-> Le(a, 4), v1 |-> Le(b, 4)]

U64(a, b) == [kind |-> "U64", v0 |-> Le(a, 8), v1 |-> Le(b, 8)]

\* CmpValues::Bytes((a, b)) of two CmplogBytes
Bytes(a, b) == [kind |-> "Bytes", v0 |-> a, v1 |-> b]

NumericKinds == {"U8", "U16", "U32", "U64"}

\* the width in bytes of the operands of a numeric variant
Width(kind) ==
    CASE kind = "U8" -> 1 [] kind = "U16" -> 2 [] kind = "U32" -> 4 [] kind = "U64" -> 8

is_numeric(v) == v.kind \in {"U8", "U16", "U32", "U64"}

ToTupleAtOwnWidth(v) ==
    CASE v.kind \in NumericKinds -> Some(<<v.v0, v.v1>>)
      [] v.kind = "Bytes" -> None

to_u64_tuple(v) ==
    CASE v.kind = "U8" -> Some(<<U64From(v.v0), U64From(v.v1)>>)
      [] v.kind = "U16" -> Some(<<U64From(v.v0), U64From(v.v1)>>)
      [] v.kind = "U32" -> Some(<<U64From(v.v0), U64From(v.v1)>>)
      [] v.kind = "U64" -> Some(<<v.v0, v.v1>>)
      [] v.kind = "Bytes" -> None

----------------------------------------------------------------------------
(* CmpMap: the interface add_from reads, over a ring-logging map *)

EmptySite == [hits |-> 0, ring |-> <<>>]

CmpMapLen(map) == Cardinality(DOMAIN map)

executions_for(map, idx) == map[idx].hits

usable_executions_for(map, idx) == Len(map[idx].ring)

values_of(map, idx, execution) ==
    IF execution < Len(map[idx].ring) THEN map[idx].ring[execution + 1] ELSE None

CmpMapReset(map) == [s \in DOMAIN map |-> EmptySite]

----------------------------------------------------------------------------
(* CmpValuesMetadata::add_from *)

\* self.list.clear()
ListClearKeeps(list) == list

ListClear(list) == <<>>

\* the four counters and the remembered previous value, before the first step
ScanStart == [last |-> None, inc0 |-> 0, inc1 |-> 0, dec0 |-> 0, dec1 |-> 0]

Bump(cond) == IF cond THEN 1 ELSE 0

ScanStepSkipsBytes(acc, val_opt) ==
    IF ~IsSome(val_opt) THEN acc
    ELSE LET val == Unwrap(val_opt)
             l == IF IsSome(acc.last) THEN to_u64_tuple(Unwrap(acc.last)) ELSE None
             v == to_u64_tuple(val)
             both == IsSome(l) /\ IsSome(v)
         IN  [last |-> IF IsSome(v) THEN Some(val) ELSE acc.last,
              inc0 |-> acc.inc0 + Bump(both /\ WrappingAdd1(Unwrap(l)[1]) = Unwrap(v)[1]),
              inc1 |-> acc.inc1 + Bump(both /\ WrappingAdd1(Unwrap(l)[2]) = Unwrap(v)[2]),
              dec0 |-> acc.dec0 + Bump(both /\ WrappingSub1(Unwrap(l)[1]) = Unwrap(v)[1]),
              dec1 |-> acc.dec1 + Bump(both /\ WrappingSub1(Unwrap(l)[2]) = Unwrap(v)[2])]

\* one turn of the loop over the logged executions of a site
ScanStep(acc, val_opt) ==
    IF ~IsSome(val_opt) THEN acc
    ELSE LET val == Unwrap(val_opt)
             l == IF IsSome(acc.last) THEN to_u64_tuple(Unwrap(acc.last)) ELSE None
             v == to_u64_tuple(val)
             both == IsSome(l) /\ IsSome(v)
         IN  [last |-> Some(val),
              inc0 |-> acc.inc0 + Bump(both /\ WrappingAdd1(Unwrap(l)[1]) = Unwrap(v)[1]),
              inc1 |-> acc.inc1 + Bump(both /\ WrappingAdd1(Unwrap(l)[2]) = Unwrap(v)[2]),
              dec0 |-> acc.dec0 + Bump(both /\ WrappingSub1(Unwrap(l)[1]) = Unwrap(v)[1]),
              dec1 |-> acc.dec1 + Bump(both /\ WrappingSub1(Unwrap(l)[2]) = Unwrap(v)[2])]

RECURSIVE ScanSite(_, _, _, _, _)
ScanSite(map, i, j, execs, acc) ==
    IF j >= execs THEN acc
    ELSE ScanSite(map, i, j + 1, execs, ScanStep(acc, values_of(map, i, j)))

\* the number of executions above which a site is examined for a loop
LoopMinExecs == 4

\* the number of steps a loop may miss
LoopSlack == 2

DetectsFromOneLess(execs) == execs > LoopMinExecs - 1

DetectsFromOneMore(execs) == execs > LoopMinExecs + 1

\* if execs > 4
DetectionApplies(execs) == execs > LoopMinExecs

IsLoopCounterStrict(c, execs) ==
    \/ c.inc0 >= execs - 1
    \/ c.inc1 >= execs - 1
    \/ c.dec0 >= execs - 1
    \/ c.dec1 >= execs - 1

IsLoopCounterThreeCounters(c, execs) ==
    \/ c.inc0 >= execs - LoopSlack
    \/ c.inc1 >= execs - LoopSlack
    \/ c.dec0 >= execs - LoopSlack

\* the test that discards the site
IsLoopCounter(c, execs) ==
    \/ c.inc0 >= execs - LoopSlack
    \/ c.inc1 >= execs - LoopSlack
    \/ c.dec0 >= execs - LoopSlack
    \/ c.dec1 >= execs - LoopSlack

\* for j in 0..execs: push the available values
RECURSIVE PushSite(_, _, _, _, _)
PushSite(list, map, i, j, execs) ==
    IF j >= execs THEN list
    ELSE LET val_opt == values_of(map, i, j)
         IN  PushSite(IF IsSome(val_opt) THEN Append(list, Unwrap(val_opt)) ELSE list,
                      map, i, j + 1, execs)

ReduceSitePrepends(list, map, i) ==
    LET execs == usable_executions_for(map, i)
    IN  IF execs > 0
        THEN IF DetectionApplies(execs)
                /\ IsLoopCounter(ScanSite(map, i, 0, execs, ScanStart), execs)
             THEN list
             ELSE PushSite(<<>>, map, i, 0, execs) \o list
        ELSE list

\* the body of the loop over the sites
ReduceSite(list, map, i) ==
    LET execs == usable_executions_for(map, i)
    IN  IF execs > 0
        THEN IF DetectionApplies(execs)
                /\ IsLoopCounter(ScanSite(map, i, 0, execs, ScanStart), execs)
             THEN list
             ELSE PushSite(list, map, i, 0, execs)
        ELSE list

RECURSIVE AddFromLoop(_, _, _, _)
AddFromLoop(list, map, i, count) ==
    IF i >= count THEN list
    ELSE AddFromLoop(ReduceSite(list, map, i), map, i + 1, count)

add_from(list, usable_count, map) ==
    AddFromLoop(ListClear(list), map, 0, usable_count)

\* the map after add_from was handed it as `&mut CM`: add_from calls only
\* usable_executions_for and values_of on it, which take `&self`
CmpMapClearedByAddFrom(map) == CmpMapReset(map)

CmpMapAfterAddFrom(map) == map

----------------------------------------------------------------------------
(* StdCmpObserver *)

UsableCountIgnoresSize == CmpMapLen(cmp_map)

usable_count ==
    IF IsSome(size) THEN Unwrap(size) ELSE CmpMapLen(cmp_map)

\* outcomes of the map's reset()
ResetResults == {"Ok", "Err"}

\* `self.cmp_map.as_mut().reset()?; Ok(())`: what pre_exec returns when
\* reset returned r
PreExecSwallows(r) == "Ok"

PreExecReturns(r) == r

pre_exec ==
    /\ ~running
    /\ \E r \in ResetResults :
        /\ cmp_map' = IF r = "Ok" THEN CmpMapReset(cmp_map) ELSE cmp_map
        /\ obs_ret' = PreExecReturns(r)
        /\ running' = (PreExecReturns(r) = "Ok")
        /\ reductions' = IF r = "Ok" THEN 0 ELSE reductions
    /\ UNCHANGED <<size, add_meta, meta, logged, profile>>
    /\ UNCHANGED notCmpVars

\* state.metadata_or_insert_with(|| M::new_metadata())
MetadataOrInsert(m) == IF IsSome(m) THEN Unwrap(m) ELSE <<>>

\* `if self.add_meta { .. }`
AccumulatesAlways(flag) == TRUE

Accumulates(flag) == flag

\* the exit kinds post_exec may be handed; it does not look at its _exit_kind
ExitKinds == {"Ok", "Crash"}

post_exec ==
    /\ \E exit_kind \in ExitKinds :
          meta' = IF Accumulates(add_meta)
                  THEN Some(add_from(MetadataOrInsert(meta), usable_count, cmp_map))
                  ELSE meta
    /\ obs_ret' = "Ok"
    /\ running' = FALSE
    /\ cmp_map' = IF Accumulates(add_meta) THEN CmpMapAfterAddFrom(cmp_map) ELSE cmp_map
    /\ reductions' = IF reductions < 2 THEN reductions + 1 ELSE reductions
    /\ UNCHANGED <<size, add_meta, logged, profile>>
    /\ UNCHANGED notCmpVars

----------------------------------------------------------------------------------------------------------------------------------------
(* Stage names and the retry counter kept under a stage's name *)

Stages == {"std", "multi"}

\* MUTATIONAL_STAGE_NAME + ":" + id, MULTI_MUTATIONAL_STAGE_NAME + ":" + id
StageName(st) == IF st = "std" THEN "mutational:0" ELSE "multimutational:0"

StageNames == {StageName(st) : st \in Stages}

\* RetryCountRestartHelper::should_restart(state, name, max_retries): the
\* counter starts at max_retries + 1, every call takes one off, and the
\* answer is whether something is left
TriesAfter(t, max_retries) ==
    (IF IsSome(t) THEN Unwrap(t) ELSE max_retries + 1) - 1

\* the retry limit both stages pass
RetryLimitOneLess == 3 - 1

RetryLimit == 3

\* the name a stage hands to the helper: `&self.name`
ProgressNameOfOther(st) == IF st = "std" THEN StageName("multi") ELSE StageName("std")

ProgressName(st) == StageName(st)

\* Stage::should_restart of StdMutationalStage and MultiMutationalStage,
\* called by the driver before it enters perform
should_restart(st) ==
    /\ phase = "out"
    /\ LET t == TriesAfter(tries[ProgressName(st)], RetryLimit)
       IN  /\ tries' = [tries EXCEPT ![ProgressName(st)] = Some(t)]
           /\ phase' = IF t # 0 THEN "in" ELSE "skip"
    /\ stage' = st
    /\ pc' = "idle"
    /\ trace' = <<>>
    /\ ret' = "None"
    /\ UNCHANGED <<cleared_from, max_iterations, current_corpus_id, exits, num, iter, corpus_id>>
    /\ UNCHANGED notStageVars

\* Stage::clear_progress: RetryCountRestartHelper::clear_progress(state, name),
\* called once perform has returned or was not to be entered
clear_progress(st) ==
    /\ stage = st
    /\ \/ phase = "skip"
       \/ phase = "in" /\ pc = "idle" /\ ret # "None"
    /\ tries' = [tries EXCEPT ![ProgressName(st)] = None]
    /\ cleared_from' = Some([name |-> ProgressName(st), tries |-> tries[ProgressName(st)]])
    /\ exits' = [exits EXCEPT ![StageName(st)] = 0]
    /\ phase' = "out"
    /\ UNCHANGED <<max_iterations, current_corpus_id, stage, pc, num, iter, corpus_id,
                   trace, ret>>
    /\ UNCHANGED notStageVars

\* the target crashes or hangs under evaluate_input: the process is
\* restarted, the run state (with the retry counters) is restored
AbnormalExit ==
    /\ phase = "in" /\ pc = "evaluate"
    /\ exits' = [exits EXCEPT ![StageName(stage)] = @ + 1]
    /\ phase' = "out"
    /\ pc' = "idle"
    /\ trace' = <<>>
    /\ ret' = "None"
    /\ UNCHANGED <<cleared_from, max_iterations, current_corpus_id, tries, stage, num, iter, corpus_id>>
    /\ UNCHANGED notStageVars

----------------------------------------------------------------------------
(* perform_mutational and the two perform methods *)

\* a call perform made in iteration `it`: its result `res`, and the
\* Option<CorpusId> it was given (the hooks) or returned (evaluate_input)
\* a call that was handed the input `arg`
EventWith(op, i, id, res, arg) ==
    [op |-> op, it |-> i, id |-> id, res |-> res, arg |-> arg]

Event(op, i, id, res) == EventWith(op, i, id, res, None)

\* go on inside perform after the calls `events`
Goto(events, next_pc) ==
    /\ trace' = trace \o events
    /\ pc' = next_pc
    /\ ret' = ret

\* return r from perform after the calls `events`
Return(events, r) ==
    /\ trace' = trace \o events
    /\ pc' = "idle"
    /\ ret' = r

\* the end of a turn of `for _ in 0..num` / `for new_input in generated`
NextTurnIsLast(events, next_pc) ==
    /\ iter' = iter + 1
    /\ Return(events, "Ok")

NextTurn(events, next_pc) ==
    /\ iter' = iter + 1
    /\ IF iter + 1 < num THEN Goto(events, next_pc) ELSE Return(events, "Ok")

\* iterations(): 1 + state.rand_mut().below(self.max_iterations)
IterationsFromZero(max) == {r : r \in 0..max}

IterationsUpToMax(max) == {1 + r : r \in 0..max}

Iterations(max) == {1 + r : r \in 0..(max - 1)}

\* `let Ok(input) = ...try_transform_from(..) else { return Ok(()) }`
TransformFailedPropagates == "TransformErr"

TransformFailed == "Ok"

\* `state.current_testcase_mut()?` when no corpus entry is selected: the
\* error goes to the caller
TestcaseMissing == "IllegalState"

\* the `?` after mutate, evaluate_input and the mutator's post_exec
NeverFails(r) == FALSE

MutateFails(r) == r = "Err"

EvaluateFails(r) == r = "Err"

PostExecFails(r) == r = "Err"

\* `if mutated == MutationResult::Skipped { continue; }`
SkipsNever(mutated) == FALSE

SkipsEvaluation(mutated) == mutated = "Skipped"

\* the id both hooks are handed: the corpus_id evaluate_input returned
HookIdDropped(id) == None

HookId(id) == id

\* I::try_transform_from(&mut testcase, state): the representation of the
\* corpus entry that the mutator works on, no mutation applied to it
TransformFrom(id) == [entry |-> id, mutations |-> 0]

\* mutator.mutate(state, &mut input): a mutation changes the input handed in
MutateInput(input, r) ==
    IF r = "Mutated" THEN [input EXCEPT !.mutations = @ + 1] ELSE input

\* the input the mutate call of the turn before left behind
RECURSIVE LeftBehind(_, _)
LeftBehind(tr, original) ==
    IF tr = <<>> THEN original
    ELSE LET e == tr[Len(tr)]
         IN  IF e.op = "mutate" THEN MutateInput(Unwrap(e.arg), e.res)
             ELSE LeftBehind(SubSeq(tr, 1, Len(tr) - 1), original)

\* `let mut input = input.clone();` at the head of a turn: the input of the
\* turn is a copy of the transformed one, `left` is dropped with its turn
TurnInputReused(original, left) == left

TurnInput(original, left) == original

\* StdMutationalStage::perform up to the first turn of the loop: the draw,
\* current_testcase_mut()? and try_transform_from
StdPerformEnter ==
    /\ phase = "in" /\ stage = "std" /\ pc = "idle" /\ ret = "None"
    /\ \E n \in Iterations(max_iterations), t \in {"Ok", "Err"} :
        /\ num' = n
        /\ IF ~IsSome(current_corpus_id)
           THEN t = "Err" /\ Return(<<>>, TestcaseMissing)
           ELSE LET e == Event("try_transform_from", 0, None, t)
                IN  IF t = "Err" THEN Return(<<e>>, TransformFailed)
                    ELSE IF 0 < n THEN Goto(<<e>>, "mutate")
                    ELSE Return(<<e>>, "Ok")
    /\ iter' = 0
    /\ corpus_id' = None
    /\ UNCHANGED <<cleared_from, max_iterations, current_corpus_id, tries, exits, phase, stage>>
    /\ UNCHANGED notStageVars

\* input.clone(), mutator.mutate(state, &mut input)? and the test for Skipped
Mutate ==
    /\ phase = "in" /\ stage = "std" /\ pc = "mutate"
    /\ \E r \in {"Mutated", "Skipped", "Err"} :
        LET original == TransformFrom(Unwrap(current_corpus_id))
            e == EventWith("mutate", iter, None, r,
                           Some(TurnInput(original, LeftBehind(trace, original))))
        IN  IF MutateFails(r) THEN Return(<<e>>, "MutateErr") /\ iter' = iter
            ELSE IF SkipsEvaluation(r) THEN NextTurn(<<e>>, "mutate")
            ELSE Goto(<<e>>, "evaluate") /\ iter' = iter
    /\ UNCHANGED <<cleared_from, max_iterations, current_corpus_id, tries, exits, phase, stage, num,
                   corpus_id>>
    /\ UNCHANGED notStageVars

\* try_transform_into(state)? of the reflexive transform, which is always
\* Ok((self, ())), and fuzzer.evaluate_input(state, executor, manager, untransformed)?
Evaluate ==
    /\ phase = "in" /\ pc = "evaluate"
    /\ \E r \in {"Ok", "Err"}, id \in {None} \cup {Some(c) : c \in CorpusIds} :
        LET into == Event("try_transform_into", iter, None, "Ok")
            e == Event("evaluate_input", iter, id, r)
        IN  /\ r = "Err" => id = None
            /\ IF EvaluateFails(r)
               THEN Return(<<into, e>>, "EvalErr") /\ corpus_id' = corpus_id
               ELSE Goto(<<into, e>>, "post_exec") /\ corpus_id' = id
    /\ UNCHANGED <<cleared_from, max_iterations, current_corpus_id, tries, exits, phase, stage, num, iter>>
    /\ UNCHANGED notStageVars

\* mutator.post_exec(state, corpus_id)? (multi_post_exec in the multi stage)
\* and post.post_exec(state, corpus_id)? of the reflexive transform's Post,
\* (), which does nothing and is Ok
PostExec ==
    /\ phase = "in" /\ pc = "post_exec"
    /\ \E r \in {"Ok", "Err"} :
        LET m == Event(IF stage = "std" THEN "mutator.post_exec"
                       ELSE "mutator.multi_post_exec", iter, HookId(corpus_id), r)
            p == Event("post.post_exec", iter, HookId(corpus_id), "Ok")
        IN  IF PostExecFails(r) THEN Return(<<m>>, "PostExecErr") /\ iter' = iter
            ELSE NextTurn(<<m, p>>, IF stage = "std" THEN "mutate" ELSE "evaluate")
    /\ UNCHANGED <<cleared_from, max_iterations, current_corpus_id, tries, exits, phase, stage, num,
                   corpus_id>>
    /\ UNCHANGED notStageVars

\* MultiMutationalStage::perform up to the first member of the batch:
\* current_testcase_mut()?, try_transform_from and multi_mutate(state, &input, None)?
MultiPerformEnter ==
    /\ phase = "in" /\ stage = "multi" /\ pc = "idle" /\ ret = "None"
    /\ \E t \in {"Ok", "Err"}, g \in {"Ok", "Err"}, n \in 0..MaxBatch :
        /\ num' = n
        /\ IF ~IsSome(current_corpus_id)
           THEN t = "Err" /\ g = "Err" /\ n = 0 /\ Return(<<>>, TestcaseMissing)
           ELSE LET e == Event("try_transform_from", 0, None, t)
                    m == Event("multi_mutate", 0, None, g)
                IN  IF t = "Err"
                    THEN g = "Err" /\ n = 0 /\ Return(<<e>>, TransformFailed)
                    ELSE /\ g = "Err" => n = 0
                         /\ IF MutateFails(g) THEN Return(<<e, m>>, "MutateErr")
                            ELSE IF 0 < n THEN Goto(<<e, m>>, "evaluate")
                            ELSE Return(<<e, m>>, "Ok")
    /\ iter' = 0
    /\ corpus_id' = None
    /\ UNCHANGED <<cleared_from, max_iterations, current_corpus_id, tries, exits, phase, stage>>
    /\ UNCHANGED notStageVars

----------------------------------------------------------------------------
(* StatsStage *)

\* `let Some(corpus_id) = state.current_corpus_id()? else { return Err(..) }`
StatsNoEntrySwallowed == "Ok"

StatsNoEntry == "IllegalState"

\* a usize subtraction a - b panics where the build checks overflow and
\* wraps where it does not; a wrapped result 2^64 + d is kept as d < 0
Underflows(a, b) == overflow_checks /\ a < b

\* StatsStage::perform, which is update_and_report_afl_stats; should_restart
\* and clear_progress of this stage do nothing, so the driver is back
\* between two stages when this returns
StatsPerform ==
    /\ phase = "out"
    /\ stage' = "stats"
    /\ pc' = "idle"
    /\ trace' = <<>>
    /\ IF ~IsSome(current_corpus_id)
       THEN /\ ret' = StatsNoEntry
            /\ UNCHANGED <<has_fuzzed_size, is_favored_size, imported_size, own_finds_size>>
       ELSE LET testcase == corpus[Unwrap(current_corpus_id) + 1]
                corpus_size == Len(corpus)
                fuzzed == has_fuzzed_size + 1
                favored == is_favored_size + (IF testcase.favored THEN 1 ELSE 0)
            IN  IF testcase.scheduled_count # 0
                THEN /\ ret' = "Ok"
                     /\ UNCHANGED <<has_fuzzed_size, is_favored_size, imported_size,
                                    own_finds_size>>
                ELSE /\ has_fuzzed_size < MaxFuzzed
                     /\ has_fuzzed_size' = fuzzed
                     /\ is_favored_size' = favored
                     /\ IF Underflows(corpus_size, fuzzed) \/ Underflows(corpus_size, favored)
                        THEN /\ ret' = "Panic"
                             /\ UNCHANGED <<imported_size, own_finds_size>>
                        ELSE /\ imported_size' = imported
                             /\ IF Underflows(corpus_size, imported)
                                THEN ret' = "Panic" /\ UNCHANGED own_finds_size
                                ELSE /\ own_finds_size' = corpus_size - imported
                                     /\ \E fire \in {"NotDue", "Ok", "Err"} :
                                          ret' = IF fire = "Err" THEN "FireErr" ELSE "Ok"
    /\ UNCHANGED <<cleared_from, max_iterations, current_corpus_id, tries, exits, phase,
                   num, iter, corpus_id>>
    /\ UNCHANGED <<corpus, imported, overflow_checks>>
    /\ UNCHANGED notStagesVars

\* the fuzzer's loop selects the entry the stages work on before it runs
\* them and deselects it afterwards
Schedule ==
    /\ phase = "out"
    /\ current_corpus_id' \in
           ({None} \cup {Some(i) : i \in 0..(Len(corpus) - 1)}) \ {current_corpus_id}
    /\ UNCHANGED <<cleared_from, max_iterations, tries, exits, phase, stage, pc, num,
                   iter, corpus_id, trace, ret>>
    /\ UNCHANGED notStageVars

\* the fuzzer's loop counts a round for the entry it worked on, after the
\* stages have run on it
FuzzOneEnds ==
    /\ phase = "out"
    /\ IsSome(current_corpus_id)
    /\ corpus[Unwrap(current_corpus_id) + 1].scheduled_count < MaxScheduled
    /\ corpus' = [corpus EXCEPT ![Unwrap(current_corpus_id) + 1].scheduled_count = @ + 1]
    /\ UNCHANGED <<has_fuzzed_size, is_favored_size, own_finds_size, imported_size,
                   imported, overflow_checks>>
    /\ UNCHANGED stageVars
    /\ UNCHANGED notStagesVars

\* the corpora the stats stage may find: entries that were scheduled before
\* or not, favored or not
Corpora ==
    UNION {[1..n -> [scheduled_count : 0..MaxScheduled, favored : BOOLEAN]] :
               n \in 1..MaxCorpus}

StatsIdle ==
    /\ has_fuzzed_size = 0
    /\ is_favored_size = 0
    /\ own_finds_size = 0
    /\ imported_size = 0

\* a corpus of one entry that was never scheduled, nothing imported
OneFreshEntry ==
    /\ corpus = <<[scheduled_count |-> 0, favored |-> FALSE]>>
    /\ imported = 0
    /\ overflow_checks = TRUE

ValuesIdle ==
    /\ arg_val = None
    /\ numeric_ret = None
    /\ tuple_ret = None

\* a header with all bits clear
HeaderIdle ==
    /\ header = <<0, 0>>
    /\ written = [f \in {"hits", "shape", "_type", "attribute"} |-> 0]

\* the guard cells as the loader maps them, nothing numbered yet
GuardsIdle ==
    /\ guards = [g \in 0..(NumGuards - 1) |-> 0]
    /\ MAX_EDGES_FOUND = 0
    /\ registered = {}
    /\ aborted = FALSE

NamesIdle ==
    /\ instances = <<>>
    /\ MUTATIONAL_STAGE_ID = 0
    /\ MULTI_MUTATIONAL_STAGE_ID = 0

BytesIdle ==
    /\ arg_buf = <<>>
    /\ arg_len = 0
    /\ cmplog_bytes = None
    /\ slice_ret = None
    /\ len_ret = None

----------------------------------------------------------------------------
(* Construction and cloning of stage instances *)

\* usize::to_string: the decimal digits, most significant first
RECURSIVE to_string(_)
to_string(n) == IF n < 10 THEN <<n>> ELSE Append(to_string(n \div 10), n % 10)

MUTATIONAL_STAGE_NAME == "mutational"

MULTI_MUTATIONAL_STAGE_NAME == "multimutational"

\* NAME.to_owned() + ":" + stage_id.to_string().as_str(), as a pair of the
\* text up to the colon and the digits after it
NameOf(prefix, stage_id) == [prefix |-> prefix, digits |-> to_string(stage_id)]

\* StdMutationalStage::transforming_with_max_iterations, which new,
\* with_max_iterations and transforming all end in: take the static id,
\* step it, and name the stage after the id taken
NewStd ==
    /\ Len(instances) < MaxInstances
    /\ LET stage_id == MUTATIONAL_STAGE_ID
       IN  instances' = Append(instances, [kind |-> "std",
                                           name |-> NameOf(MUTATIONAL_STAGE_NAME, stage_id)])
    /\ MUTATIONAL_STAGE_ID' = MUTATIONAL_STAGE_ID + 1
    /\ UNCHANGED MULTI_MUTATIONAL_STAGE_ID
    /\ UNCHANGED notNameVars

\* MultiMutationalStage::transforming, which new ends in
NewMulti ==
    /\ Len(instances) < MaxInstances
    /\ LET stage_id == MULTI_MUTATIONAL_STAGE_ID
       IN  instances' = Append(instances, [kind |-> "multi",
                                           name |-> NameOf(MULTI_MUTATIONAL_STAGE_NAME, stage_id)])
    /\ MULTI_MUTATIONAL_STAGE_ID' = MULTI_MUTATIONAL_STAGE_ID + 1
    /\ UNCHANGED MUTATIONAL_STAGE_ID
    /\ UNCHANGED notNameVars

\* #[derive(Clone)] on both stage structs: the clone is a field-by-field
\* copy, name included, and the static ids are not touched
CloneStage ==
    /\ Len(instances) < MaxInstances
    /\ \E i \in 1..Len(instances) : instances' = Append(instances, instances[i])
    /\ UNCHANGED <<MUTATIONAL_STAGE_ID, MULTI_MUTATIONAL_STAGE_ID>>
    /\ UNCHANGED notNameVars

----------------------------------------------------------------------------
(* CmplogBytes *)

\* `buf: [u8; 32]`
BufSize == 32

\* the buffers handed to from_buf_and_len: buffer p holds at 0-based index
\* k the byte (k * (p + 1) + 37 * p + 1) % 256
PatternBuf(p) == [k \in 1..BufSize |-> ((k - 1) * (p + 1) + 37 * p + 1) % 256]

\* CmplogBytes::from_buf_and_len: `CmplogBytes { buf, len }`
from_buf_and_len(buf, length) == [buf |-> buf, len |-> length]

\* `&self.buf[0..(self.len as usize)]`
as_slice_whole(bytes) == bytes.buf

as_slice(bytes) == SubSeq(bytes.buf, 1, bytes.len)

\* HasLen::len: `self.len as usize`
len(bytes) == bytes.len

\* a caller builds a CmplogBytes from a buffer and a length of at most 32
FromBufAndLen ==
    /\ \E p \in 0..MaxPattern, length \in 0..BufSize :
        /\ arg_buf' = PatternBuf(p)
        /\ arg_len' = length
        /\ cmplog_bytes' = Some(from_buf_and_len(PatternBuf(p), length))
    /\ slice_ret' = None
    /\ len_ret' = None
    /\ UNCHANGED notBytesVars

AsSlice ==
    /\ IsSome(cmplog_bytes)
    /\ slice_ret' = Some(as_slice(Unwrap(cmplog_bytes)))
    /\ UNCHANGED <<arg_buf, arg_len, cmplog_bytes, len_ret>>
    /\ UNCHANGED notBytesVars

BytesLen ==
    /\ IsSome(cmplog_bytes)
    /\ len_ret' = Some(len(Unwrap(cmplog_bytes)))
    /\ UNCHANGED <<arg_buf, arg_len, cmplog_bytes, slice_ret>>
    /\ UNCHANGED notBytesVars

----------------------------------------------------------------------------
(* Callers of is_numeric and to_u64_tuple *)

\* operands of w bytes: zero, and the values whose j low bytes are all 1,
\* ..., all SampleByteMax or all 255 (the largest value of the width when
\* j = w)
OperandSamples(w) ==
    {[k \in 1..w |-> IF k <= j THEN b ELSE 0] :
        j \in 0..w, b \in (1..SampleByteMax) \cup {255}}

\* a caller holds a value of one of the five variants, once it is done
\* with the one before
PickValue ==
    /\ IsSome(arg_val) => (IsSome(numeric_ret) /\ IsSome(tuple_ret))
    /\ \/ \E kind \in NumericKinds :
            \E a \in OperandSamples(Width(kind)), b \in OperandSamples(Width(kind)) :
                arg_val' = Some([kind |-> kind, v0 |-> a, v1 |-> b])
       \/ \E p \in 0..MaxPattern, q \in 0..MaxPattern, length \in {0, 5, BufSize} :
            arg_val' = Some(Bytes(from_buf_and_len(PatternBuf(p), length),
                                  from_buf_and_len(PatternBuf(q), length)))
    /\ numeric_ret' = None
    /\ tuple_ret' = None
    /\ UNCHANGED notValueVars

IsNumeric ==
    /\ IsSome(arg_val)
    /\ numeric_ret' = Some(is_numeric(Unwrap(arg_val)))
    /\ UNCHANGED <<arg_val, tuple_ret>>
    /\ UNCHANGED notValueVars

ToU64Tuple ==
    /\ IsSome(arg_val)
    /\ tuple_ret' = Some(to_u64_tuple(Unwrap(arg_val)))
    /\ UNCHANGED <<arg_val, numeric_ret>>
    /\ UNCHANGED notValueVars

----------------------------------------------------------------------------
(* The instrumented target: logs operand pairs into the ring of a site *)

Inc0(v) == [v EXCEPT !.v0 = WrappingAdd1(@)]

Dec1(v) == [v EXCEPT !.v1 = WrappingSub1(@)]

\* an unrelated pair
Jump(v) ==
    IF v = U8(9, 1) THEN U8(2, 7) ELSE IF v = U8(2, 7) THEN U8(100, 3) ELSE U8(9, 1)

\* the pair logged last at a site
LastLogged(site) ==
    IF site.hits = 0 THEN None ELSE site.ring[((site.hits - 1) % RingDepth) + 1]

\* the numeric pair logged last at a site, looking k hits back and further
RECURSIVE LastNumericBack(_, _)
LastNumericBack(site, k) ==
    IF k >= Len(site.ring) THEN None
    ELSE LET v == site.ring[((site.hits - 1 - k) % RingDepth) + 1]
         IN  IF is_numeric(Unwrap(v)) THEN v ELSE LastNumericBack(site, k + 1)

\* a comparison of two byte strings of 5 bytes
BytesValue(p) ==
    Bytes(from_buf_and_len(PatternBuf(p), 5), from_buf_and_len(PatternBuf(p), 5))

\* the largest value of w bytes less one
NearMax(w) == [k \in 1..w |-> IF k = 1 THEN 254 ELSE 255]

\* where the counters of a target comparing at the width of `kind` start:
\* site 0 counts up from the largest value less one in operand 0, site 1
\* counts down from 1 in operand 1
WideStart(kind, s) ==
    IF s = 0
    THEN [kind |-> kind, v0 |-> NearMax(Width(kind)), v1 |-> Le(7, Width(kind))]
    ELSE [kind |-> kind, v0 |-> Le(7, Width(kind)), v1 |-> Le(1, Width(kind))]

\* the ways a site goes on: its counter steps, or something else is compared
LogChoices == {"step", "other"}

\* the pair site s logs next. Profile "counter": site 0 compares a counter
\* going up in operand 0, site 1 one going down in operand 1, and both may
\* meet an unrelated pair. Profile "bytes": site 0 compares byte strings
\* only, site 1 a counter going up with byte strings in between. The
\* profiles "U8" .. "U64": counters of that width that run over the ends
\* of their range, the one of site 0 starting over at times, the one of
\* site 1 pausing at most once, at its start
NextLogged(p, s, site, c) ==
    LET last == LastLogged(site)
    IN  CASE p = "counter" ->
               IF ~IsSome(last) THEN (IF s = 0 THEN U8(1, 2) ELSE U8(9, 1))
               ELSE IF c = "other" THEN Jump(Unwrap(last))
               ELSE IF s = 0 THEN Inc0(Unwrap(last)) ELSE Dec1(Unwrap(last))
          [] p = "bytes" ->
               IF s = 0
               THEN IF IsSome(last) /\ Unwrap(last).v0.buf = PatternBuf(0)
                    THEN BytesValue(1) ELSE BytesValue(0)
               ELSE IF c = "other" THEN BytesValue(0)
               ELSE LET n == LastNumericBack(site, 0)
                    IN  IF IsSome(n) THEN Inc0(Unwrap(n)) ELSE U8(1, 2)
          [] p \in NumericKinds ->
               IF ~IsSome(last) \/ (c = "other" /\ (s = 0 \/ site.hits = 1))
               THEN WideStart(p, s)
               ELSE IF s = 0 THEN Inc0(Unwrap(last)) ELSE Dec1(Unwrap(last))

\* hit number `hits` writes slot hits % RingDepth
RingPut(site, v) ==
    LET slot == (site.hits % RingDepth) + 1
    IN  [hits |-> site.hits + 1,
         ring |-> IF slot > Len(site.ring)
                  THEN Append(site.ring, Some(v))
                  ELSE [site.ring EXCEPT ![slot] = Some(v)]]

Log(s) ==
    /\ running
    /\ logged < MaxLogged
    /\ \E c \in LogChoices :
          cmp_map' = [cmp_map EXCEPT ![s] = RingPut(@, NextLogged(profile, s, cmp_map[s], c))]
    /\ logged' = logged + 1
    /\ UNCHANGED <<size, add_meta, meta, obs_ret, running, reductions, profile>>
    /\ UNCHANGED notCmpVars

----------------------------------------------------------------------------
(* AFLppCmpLogHeader *)

RECURSIVE Pow2(_)
Pow2(n) == IF n = 0 THEN 1 ELSE 2 * Pow2(n - 1)

\* the bitfields the struct declares over `data: [u8; 2]`
HeaderFields == {"hits", "shape", "_type", "attribute"}

\* the first and the last bit of data a bitfield covers: `bits = "0..=5"`,
\* "6..=10", "11..=11", "12..=15"
BitsShapeFromFive(f) ==
    CASE f = "hits" -> <<0, 5>>
      [] f = "shape" -> <<5, 10>>
      [] f = "_type" -> <<11, 11>>
      [] f = "attribute" -> <<12, 15>>

Bits(f) ==
    CASE f = "hits" -> <<0, 5>>
      [] f = "shape" -> <<6, 10>>
      [] f = "_type" -> <<11, 11>>
      [] f = "attribute" -> <<12, 15>>

BitWidth(f) == Bits(f)[2] - Bits(f)[1] + 1

\* the 16 bits of data as a number: bit i is bit i % 8 of byte i / 8
DataBits(data) == data[1] + 256 * data[2]

\* the getter of bitfield f
Getter(data, f) == (DataBits(data) \div Pow2(Bits(f)[1])) % Pow2(BitWidth(f))

\* the setter of bitfield f: the bits of the field are replaced by those of v
Setter(data, f, v) ==
    LET n == DataBits(data) - Getter(data, f) * Pow2(Bits(f)[1])
                 + (v % Pow2(BitWidth(f))) * Pow2(Bits(f)[1])
    IN  <<n % 256, n \div 256>>

\* the values a caller sets a field to: the small ones and the largest
FieldSamples(f) ==
    {v \in (0..MaxFieldSample) \cup {Pow2(BitWidth(f)) - 1} : v < Pow2(BitWidth(f))}

\* set_hits, set_shape, set__type, set_attribute
SetField ==
    /\ \E f \in HeaderFields : \E v \in FieldSamples(f) :
        /\ header' = Setter(header, f, v)
        /\ written' = [written EXCEPT ![f] = v]
    /\ UNCHANGED notHeaderVars

----------------------------------------------------------------------------
(* sancov_pcguard: numbering the guards *)

\* `x as u32` of a usize
AsU32(n) == (n % 65536) + 65536 * ((n \div 65536) % 65536)

\* the guard sections [start, stop) that loaded modules may have
Ranges == {r \in (0..NumGuards) \X (0..NumGuards) : r[1] <= r[2]}

Cells(r) == r[1]..(r[2] - 1)

\* the sections of different modules do not overlap; the loader may
\* announce the section of a module more than once
Announceable(r) ==
    \/ r \in registered
    \/ \A q \in registered : Cells(r) \cap Cells(q) = {}

\* assert!((MAX_EDGES_FOUND <= edges_map_len), ..)
WithinMapOrOneMore(max, edges_map_len) == max <= edges_map_len + 1

WithinMap(max, edges_map_len) == max <= edges_map_len

\* `if start == stop || *start != 0 { return; }`
ReturnsAtOnce(g, start, stop) == start = stop \/ g[start] # 0

\* `while start < stop { .. }`: s holds the guards, MAX_EDGES_FOUND and
\* whether the assertion failed, which ends the process
RECURSIVE InitLoop(_, _, _)
InitLoop(s, start, stop) ==
    IF ~(start < stop) THEN s
    ELSE LET g == [s.guards EXCEPT ![start] = AsU32(s.max)]
             max == s.max + 1
         IN  IF WithinMap(max, EdgesMapLen)
             THEN InitLoop([guards |-> g, max |-> max, aborted |-> FALSE], start + 1, stop)
             ELSE [guards |-> g, max |-> max, aborted |-> TRUE]

\* __sanitizer_cov_trace_pc_guard_init(start, stop) without pointer_maps
sanitizer_cov_trace_pc_guard_init(start, stop) ==
    /\ ~aborted
    /\ Announceable(<<start, stop>>)
    /\ registered' = IF start = stop THEN registered ELSE registered \cup {<<start, stop>>}
    /\ IF ReturnsAtOnce(guards, start, stop)
       THEN UNCHANGED <<guards, MAX_EDGES_FOUND, aborted>>
       ELSE LET s == InitLoop([guards |-> guards, max |-> MAX_EDGES_FOUND,
                               aborted |-> FALSE], start, stop)
            IN  /\ guards' = s.guards
                /\ MAX_EDGES_FOUND' = s.max
                /\ aborted' = s.aborted
    /\ UNCHANGED notGuardVars

----------------------------------------------------------------------------
(* The stages' specification *)

StageIdle ==
    /\ tries = [n \in StageNames |-> None]
    /\ exits = [n \in StageNames |-> 0]
    /\ phase = "out"
    /\ stage = "std"
    /\ pc = "idle"
    /\ num = 0
    /\ iter = 0
    /\ corpus_id = None
    /\ trace = <<>>
    /\ ret = "None"
    /\ cleared_from = None

CmpIdleWith(p) ==
    /\ cmp_map = [s \in Sites |-> EmptySite]
    /\ meta = None
    /\ obs_ret = "Ok"
    /\ running = FALSE
    /\ reductions = 0
    /\ logged = 0
    /\ profile = p

CmpIdle == CmpIdleWith("counter")

StageInit ==
    /\ CmpIdle
    /\ size = None
    /\ add_meta = TRUE
    /\ StageIdle
    /\ max_iterations \in 1..MaxIter
    /\ current_corpus_id \in {None, Some(0)}
    /\ StatsIdle
    /\ OneFreshEntry
    /\ NamesIdle
    /\ BytesIdle
    /\ ValuesIdle
    /\ HeaderIdle
    /\ GuardsIdle

StageNext ==
    \/ \E st \in Stages : should_restart(st)
    \/ \E st \in Stages : clear_progress(st)
    \/ AbnormalExit
    \/ StdPerformEnter
    \/ MultiPerformEnter
    \/ Mutate
    \/ Evaluate
    \/ PostExec
    \/ StatsPerform
    \/ Schedule

SpecStage == StageInit /\ [][StageNext]_vars

----------------------------------------------------------------------------
(* The specification of stage construction *)

NamesInit ==
    /\ CmpIdle
    /\ size = None
    /\ add_meta = TRUE
    /\ StageIdle
    /\ max_iterations = 1
    /\ current_corpus_id = None
    /\ StatsIdle
    /\ OneFreshEntry
    /\ NamesIdle
    /\ BytesIdle
    /\ ValuesIdle
    /\ HeaderIdle
    /\ GuardsIdle

NamesNext ==
    \/ NewStd
    \/ NewMulti
    \/ CloneStage

SpecNames == NamesInit /\ [][NamesNext]_vars

----------------------------------------------------------------------------
(* The specification of CmplogBytes *)

BytesInit ==
    /\ CmpIdle
    /\ size = None
    /\ add_meta = TRUE
    /\ StageIdle
    /\ max_iterations = 1
    /\ current_corpus_id = None
    /\ StatsIdle
    /\ OneFreshEntry
    /\ NamesIdle
    /\ BytesIdle
    /\ ValuesIdle
    /\ HeaderIdle
    /\ GuardsIdle

BytesNext ==
    \/ FromBufAndLen
    \/ AsSlice
    \/ BytesLen

SpecBytes == BytesInit /\ [][BytesNext]_vars

----------------------------------------------------------------------------
(* The specification of the operations of CmpValues *)

\* nothing is running and nothing was built
AllIdle ==
    /\ CmpIdle
    /\ size = None
    /\ add_meta = TRUE
    /\ StageIdle
    /\ max_iterations = 1
    /\ current_corpus_id = None
    /\ StatsIdle
    /\ OneFreshEntry
    /\ NamesIdle
    /\ BytesIdle
    /\ ValuesIdle
    /\ HeaderIdle
    /\ GuardsIdle

ValuesInit == AllIdle

ValuesNext ==
    \/ PickValue
    \/ IsNumeric
    \/ ToU64Tuple

SpecValues == ValuesInit /\ [][ValuesNext]_vars

----------------------------------------------------------------------------
(* The specification of the header's accessors *)

HeaderInit == AllIdle

HeaderNext == SetField

SpecHeader == HeaderInit /\ [][HeaderNext]_vars

----------------------------------------------------------------------------
(* The specification of the guards' numbering *)

GuardsInit == AllIdle

GuardsNext == \E r \in Ranges : sanitizer_cov_trace_pc_guard_init(r[1], r[2])

SpecGuards == GuardsInit /\ [][GuardsNext]_vars

----------------------------------------------------------------------------
(* The specification of the stats stage *)

StatsInit ==
    /\ CmpIdle
    /\ size = None
    /\ add_meta = TRUE
    /\ StageIdle
    /\ max_iterations = 1
    /\ current_corpus_id = None
    /\ StatsIdle
    /\ corpus \in Corpora
    /\ imported \in 0..Len(corpus)
    /\ overflow_checks \in BOOLEAN
    /\ NamesIdle
    /\ BytesIdle
    /\ ValuesIdle
    /\ HeaderIdle
    /\ GuardsIdle

StatsNext ==
    \/ StatsPerform
    \/ Schedule
    \/ FuzzOneEnds

SpecStats == StatsInit /\ [][StatsNext]_vars

----------------------------------------------------------------------------
(* The observer's specification *)

CmpInit ==
    /\ CmpIdle
    /\ size \in {None, Some(1)}
    /\ add_meta \in BOOLEAN
    /\ StageIdle
    /\ max_iterations = 1
    /\ current_corpus_id = None
    /\ StatsIdle
    /\ OneFreshEntry
    /\ NamesIdle
    /\ BytesIdle
    /\ ValuesIdle
    /\ HeaderIdle
    /\ GuardsIdle

CmpNext ==
    \/ pre_exec
    \/ post_exec
    \/ \E s \in Sites : Log(s)

SpecCmp == CmpInit /\ [][CmpNext]_vars

\* the observer on a target that compares byte strings
CmpBytesInit ==
    /\ CmpIdleWith("bytes")
    /\ size = None
    /\ add_meta = TRUE
    /\ StageIdle
    /\ max_iterations = 1
    /\ current_corpus_id = None
    /\ StatsIdle
    /\ OneFreshEntry
    /\ NamesIdle
    /\ BytesIdle
    /\ ValuesIdle
    /\ HeaderIdle
    /\ GuardsIdle

SpecCmpBytes == CmpBytesInit /\ [][CmpNext]_vars

\* the observer on a target whose counters run over the ends of their range
CmpWideInit ==
    /\ \E kind \in NumericKinds : CmpIdleWith(kind)
    /\ size = None
    /\ add_meta = TRUE
    /\ StageIdle
    /\ max_iterations = 1
    /\ current_corpus_id = None
    /\ StatsIdle
    /\ OneFreshEntry
    /\ NamesIdle
    /\ BytesIdle
    /\ ValuesIdle
    /\ HeaderIdle
    /\ GuardsIdle

SpecCmpWide == CmpWideInit /\ [][CmpNext]_vars

----------------------------------------------------------------------------
(* Reading the observer's state *)

\* the metadata holds the result of a reduction of the map as it is now
Reduced == ~running /\ add_meta /\ IsSome(meta)

\* the sites a reduction visits
Visited == {i \in Sites : i < usable_count}

\* the values logged at site i, in logged order
LoggedValues(i) ==
    [j \in 1..Len(cmp_map[i].ring) |-> Unwrap(cmp_map[i].ring[j])]

\* what the sites before i contribute, and what the sites after i contribute
Before(i) == add_from(<<>>, i, cmp_map)

After(i) ==
    add_from(<<>>, usable_count,
             [s \in Sites |-> IF s <= i THEN EmptySite ELSE cmp_map[s]])

\* site i contributes nothing to the list / all its values in logged order
Discarded(i) == Unwrap(meta) = Before(i) \o After(i)

KeptInFull(i) == Unwrap(meta) = Before(i) \o LoggedValues(i) \o After(i)

\* y is x plus one / x minus one as numbers, without wrapping
IsSucc(x, y) ==
    \E k \in 1..Len(x) :
        /\ \A j \in 1..(k - 1) : x[j] = 255 /\ y[j] = 0
        /\ x[k] < 255 /\ y[k] = x[k] + 1
        /\ \A j \in (k + 1)..Len(x) : y[j] = x[j]

\* operand op of the j-th logged value of site i
Operand(i, j, op) ==
    IF op = 0 THEN Unwrap(cmp_map[i].ring[j]).v0 ELSE Unwrap(cmp_map[i].ring[j]).v1

\* the steps of site i at which operand op goes up (dir = 1) or down (dir = -1) by one
MonotoneSteps(i, op, dir) ==
    {j \in 1..(Len(cmp_map[i].ring) - 1) :
        IF dir = 1 THEN IsSucc(Operand(i, j, op), Operand(i, j + 1, op))
                   ELSE IsSucc(Operand(i, j + 1, op), Operand(i, j, op))}

Steps(i) == Len(cmp_map[i].ring) - 1

----------------------------------------------------------------------------
(* Claims *)

\* C1: a visited site with at least 5 logged executions in which one operand
\* increases by exactly 1 at every step contributes no value to the list
\* that add_from builds.
C1_IncreasingSiteDiscarded ==
    Reduced =>
        \A i \in Visited :
            (/\ usable_executions_for(cmp_map, i) >= 5
             /\ \E op \in {0, 1} : Cardinality(MonotoneSteps(i, op, 1)) = Steps(i))
            => Discarded(i)

\* C1 witness: site 0 logged (1,2),(2,2),(3,2),(4,2),(5,2), site 1 logged
\* (9,1),(2,7),(100,3), and the reduction left exactly the three values of site 1.
C1_Witness ==
    /\ Reduced
    /\ ~IsSome(size)
    /\ LoggedValues(0) = <<U8(1, 2), U8(2, 2), U8(3, 2), U8(4, 2), U8(5, 2)>>
    /\ LoggedValues(1) = <<U8(9, 1), U8(2, 7), U8(100, 3)>>
    /\ Unwrap(meta) = <<U8(9, 1), U8(2, 7), U8(100, 3)>>

\* C2: a visited site with 1 to 4 usable executions is never examined for a
\* loop: all its logged values are in the list, in logged order, even when
\* they are monotonic.
C2_ShortSiteKept ==
    Reduced =>
        \A i \in Visited :
            usable_executions_for(cmp_map, i) \in 1..4 => KeptInFull(i)

\* C2 witness: site 0 logged the 4 strictly increasing values (1,2)..(4,2)
\* and all four are in the list.
C2_Witness ==
    /\ Reduced
    /\ LoggedValues(0) = <<U8(1, 2), U8(2, 2), U8(3, 2), U8(4, 2)>>
    /\ Cardinality(MonotoneSteps(0, 0, 1)) = 3
    /\ Before(0) \o LoggedValues(0) \o After(0) = Unwrap(meta)
    /\ Len(Unwrap(meta)) >= 4

\* C3: a visited site with more than 4 logged executions of which one
\* operand goes up by one (or down by one) at all steps but one, that is at
\* execs - 2 steps, is discarded.
C3_WrapTolerated ==
    Reduced =>
        \A i \in Visited :
            (/\ usable_executions_for(cmp_map, i) > 4
             /\ \E op \in {0, 1}, dir \in {1, -1} :
                    Cardinality(MonotoneSteps(i, op, dir)) = Steps(i) - 1)
            => Discarded(i)

\* C3 witness: site 0 counted from 1 to 6 in a ring of 5, so that the ring
\* holds 6 2 3 4 5 (one step down by 4, three steps up by 1), and site 0
\* left nothing in the list.
C3_Witness ==
    /\ Reduced
    /\ executions_for(cmp_map, 0) > usable_executions_for(cmp_map, 0)
    /\ usable_executions_for(cmp_map, 0) > 4
    /\ Cardinality(MonotoneSteps(0, 0, 1)) = Steps(0) - 1
    /\ Unwrap(meta) = After(0)

\* C4: after a reduction the list is what add_from builds from an empty list
\* and the map as it is: nothing of an earlier reduction remains, and a second
\* reduction of the unchanged map gives the same list.
C4_ListRebuilt ==
    Reduced => Unwrap(meta) = add_from(<<>>, usable_count, cmp_map)

\* C4 witness: the unchanged map was reduced twice and the list holds values.
C4_Witness ==
    /\ Reduced
    /\ reductions = 2
    /\ Len(Unwrap(meta)) > 0
    /\ Unwrap(meta) = add_from(<<>>, usable_count, cmp_map)

----------------------------------------------------------------------------
(* Reading the trace of a perform *)

\* the positions of the trace that hold a call of op
Calls(op) == {k \in 1..Len(trace) : trace[k].op = op}

\* the positions of the trace that hold a call of op made in iteration i
CallsIn(op, i) == {k \in Calls(op) : trace[k].it = i}

\* the positions that hold a call of op that returned res
CallsWith(op, res) == {k \in Calls(op) : trace[k].res = res}

\* what a turn does after mutate: transform back, evaluate, the two hooks
TurnOps ==
    {"try_transform_into", "evaluate_input", "mutator.post_exec",
     "mutator.multi_post_exec", "post.post_exec"}

\* try_transform_from was called and succeeded / failed
Transformed(res) ==
    /\ Len(trace) >= 1
    /\ trace[1].op = "try_transform_from"
    /\ trace[1].res = res

\* C5: an iteration of the mutational stage whose mutate returned Skipped
\* makes no other call (no transform back, no evaluation, no hook), and a
\* perform in which every mutate returned Skipped never calls the evaluator.
C5_SkippedNotEvaluated ==
    stage = "std" =>
        /\ \A k \in CallsWith("mutate", "Skipped") :
               \A op \in TurnOps : CallsIn(op, trace[k].it) = {}
        /\ Calls("mutate") = CallsWith("mutate", "Skipped")
               => Calls("evaluate_input") = {}

\* C5 witness: a perform of three iterations, all Skipped, has returned Ok
\* having called nothing but the transform and mutate.
C5_Witness ==
    /\ stage = "std" /\ ret = "Ok" /\ num = 3
    /\ Cardinality(CallsWith("mutate", "Skipped")) = 3
    /\ Len(trace) = 4
    /\ Calls("evaluate_input") = {}

\* C6: when perform of the mutational stage has returned Ok after a
\* successful transform, it ran between 1 and max_iterations iterations,
\* each with one mutate, and the evaluator was called exactly once in each
\* iteration whose mutate returned Mutated and in no other; with
\* max_iterations = 1 and a mutator that returns Mutated, exactly once.
C6_EvaluatedOncePerMutated ==
    (stage = "std" /\ ret = "Ok" /\ Transformed("Ok")) =>
        /\ num \in 1..max_iterations
        /\ \A k \in Calls("mutate") \cup Calls("evaluate_input") : trace[k].it \in 0..(num - 1)
        /\ \A i \in 0..(num - 1) :
              /\ Cardinality(CallsIn("mutate", i)) = 1
              /\ Cardinality(CallsIn("evaluate_input", i)) =
                   Cardinality(CallsIn("mutate", i) \cap CallsWith("mutate", "Mutated"))
        /\ (max_iterations = 1 /\ Calls("mutate") = CallsWith("mutate", "Mutated"))
               => Cardinality(Calls("evaluate_input")) = 1

\* C6 witness: a stage with max_iterations = 1 whose mutate returned Mutated
\* has returned Ok after exactly one evaluation.
C6_Witness ==
    /\ stage = "std" /\ ret = "Ok" /\ max_iterations = 1
    /\ Cardinality(CallsWith("mutate", "Mutated")) = 1
    /\ Cardinality(Calls("evaluate_input")) = 1

\* C7: when try_transform_from fails, perform (of either stage) returns Ok
\* and has called nothing else: no mutator, no evaluator, no hook.
C7_TransformFailureSkips ==
    Transformed("Err") => (ret = "Ok" /\ pc = "idle" /\ Len(trace) = 1)

\* C7 witness: the multi stage's perform returned Ok after a failed transform.
C7_Witness ==
    /\ stage = "multi" /\ phase = "in" /\ Transformed("Err")
    /\ ret = "Ok" /\ Calls("multi_mutate") = {}

\* C8: when mutate returns an error, it is the last call perform makes and
\* perform returns that error: the variant is not evaluated and no later
\* iteration runs.
C8_MutateErrorPropagates ==
    \A k \in CallsWith("mutate", "Err") :
        /\ k = Len(trace)
        /\ pc = "idle"
        /\ ret = "MutateErr"

\* C8 witness: iteration 0 was evaluated, mutate failed in iteration 1 and
\* perform returned the error with the first evaluation in place.
C8_Witness ==
    /\ ret = "MutateErr"
    /\ CallsIn("evaluate_input", 0) # {}
    /\ CallsIn("mutate", 1) \cap CallsWith("mutate", "Err") # {}
    /\ CallsIn("evaluate_input", 1) = {}

\* C9: when evaluate_input returns an error, it is the last call perform (of
\* either stage) makes and perform returns that error: no hook runs for the
\* variant and no later iteration runs.
C9_EvaluateErrorPropagates ==
    \A k \in CallsWith("evaluate_input", "Err") :
        /\ k = Len(trace)
        /\ pc = "idle"
        /\ ret = "EvalErr"
        /\ \A op \in TurnOps \ {"try_transform_into", "evaluate_input"} :
               CallsIn(op, trace[k].it) = {}

\* C9 witness: the mutational stage evaluated iteration 0 and ran its hooks,
\* the evaluation of iteration 1 failed and perform returned the error.
C9_Witness ==
    /\ stage = "std" /\ ret = "EvalErr"
    /\ CallsIn("post.post_exec", 0) # {}
    /\ CallsIn("evaluate_input", 1) \cap CallsWith("evaluate_input", "Err") # {}
    /\ CallsIn("mutator.post_exec", 1) = {}

\* C10: under a stage's name, should_restart answers true while fewer than 3
\* abnormal exits were recorded since the progress was last cleared (the
\* first entry and the resumptions after the first and second exit), and
\* false once 3 were recorded.
C10_ThreeAbnormalExits ==
    /\ \A n \in StageNames : exits[n] <= 3
    /\ phase # "out" => (phase = "skip" <=> exits[StageName(stage)] >= 3)

\* C10 witness: the mutational stage exited abnormally 3 times and
\* should_restart answered false.
C10_Witness ==
    /\ stage = "std" /\ phase = "skip"
    /\ exits[StageName("std")] = 3
    /\ tries[StageName("std")] = Some(0)

----------------------------------------------------------------------------
(* Claims about the stages' progress, names and draws *)

\* should_restart calls made for stage st since its progress was last
\* cleared: one per abnormal exit, and the one that let the driver in
RestartsSinceCleared(st) ==
    exits[StageName(st)] + (IF phase # "out" /\ stage = st THEN 1 ELSE 0)

\* C11: clear_progress resets the retry counter kept under the stage's name:
\* whatever the counter was, it is absent once progress is cleared, so the
\* counter always stands at the limit plus one less the should_restart
\* calls made since the last clear_progress, and 3 resumptions are allowed
\* again before should_restart answers false
C11_ClearedCounterStartsOver ==
    \A st \in Stages :
        LET calls == RestartsSinceCleared(st)
        IN  /\ tries[StageName(st)] =
                   IF calls = 0 THEN None ELSE Some(RetryLimit + 1 - calls)
            /\ phase = "skip" /\ stage = st => calls = RetryLimit + 1

\* the std stage used its counter up, its progress was cleared, and it was
\* resumed 3 times again before should_restart answered false
C11_Witness ==
    /\ cleared_from = Some([name |-> StageName("std"), tries |-> Some(0)])
    /\ phase = "skip" /\ stage = "std"
    /\ exits[StageName("std")] = RetryLimit
    /\ tries[StageName("std")] = Some(0)

\* C12: any two stage instances of the same type alive in one process,
\* clones included, have different names
C12_InstanceNamesDiffer ==
    \A i, j \in 1..Len(instances) :
        i # j /\ instances[i].kind = instances[j].kind
            => instances[i].name # instances[j].name

\* the driver let the std stage in and its perform has not started
StdPerformDue == phase = "in" /\ stage = "std" /\ pc = "idle" /\ ret = "None"

\* perform of the std stage has drawn its iteration count
StdPerformDrew == phase = "in" /\ stage = "std" /\ ~StdPerformDue

StageCounters ==
    <<tries, has_fuzzed_size, is_favored_size, own_finds_size, imported_size>>

\* C14: with no corpus entry selected, perform of the std, the multi and
\* the stats stage returns IllegalState (not Ok, as a failed transform
\* does), calls neither the mutator nor the evaluator, and changes no counter
C14_NoEntryIsAnError ==
    [][(~IsSome(current_corpus_id)
            /\ (StdPerformEnter \/ MultiPerformEnter \/ StatsPerform))
        => /\ ret' = "IllegalState"
           /\ pc' = "idle"
           /\ trace' = <<>>
           /\ UNCHANGED StageCounters]_vars

\* perform of the std stage returned the error with nothing called, while
\* the stats stage had counted an entry and the retry counter was in use
C14_Witness ==
    /\ ~IsSome(current_corpus_id)
    /\ phase = "in" /\ stage = "std"
    /\ ret = "IllegalState" /\ trace = <<>>
    /\ has_fuzzed_size = 1
    /\ tries[StageName("std")] = Some(RetryLimit - 1)

----------------------------------------------------------------------------
(* Claims about the order of the calls of a turn *)

\* what follows a mutate that returned Mutated, in the order of the code
AfterMutated ==
    <<"try_transform_into", "evaluate_input", "mutator.post_exec", "post.post_exec">>

\* C15: after each mutate that returned Mutated the std stage calls, in
\* this order and once each for that iteration: the transform back,
\* evaluate_input, the mutator's post_exec and the transform's post_exec;
\* both hooks are handed the id that iteration's evaluate_input returned,
\* and neither a later mutate nor the return of Ok comes before the
\* transform's hook
C15_TurnOrder ==
    \A k \in CallsWith("mutate", "Mutated") :
        /\ \A j \in 1..4 :
              k + j <= Len(trace) =>
                  /\ trace[k + j].op = AfterMutated[j]
                  /\ trace[k + j].it = trace[k].it
                  /\ j > 2 => trace[k + j].id = trace[k + 2].id
        /\ \A j \in 1..4 :
              Cardinality(CallsIn(AfterMutated[j], trace[k].it)) <= 1
        /\ (ret = "Ok" \/ \E k2 \in Calls("mutate") : k2 > k) => k + 4 <= Len(trace)

\* two iterations whose mutate returned Mutated ran to the end; the first
\* evaluation added an entry to the corpus and the second did not
C15_Witness ==
    /\ stage = "std" /\ ret = "Ok"
    /\ Len(trace) = 11
    /\ CallsWith("mutate", "Mutated") = {2, 7}
    /\ trace[4].id # None /\ trace[5].id = trace[4].id /\ trace[6].id = trace[4].id
    /\ trace[9].id = None /\ trace[11].op = "post.post_exec"

\* what the multi stage does with a member of the batch, in the order of the code
PerMember ==
    <<"try_transform_into", "evaluate_input", "mutator.multi_post_exec", "post.post_exec">>

\* C16: perform of the multi stage calls try_transform_from once, then
\* multi_mutate once, then for the members of the batch in their order the
\* transform back, evaluate_input, multi_post_exec and the transform's
\* post_exec, the hooks with the id that member's evaluation returned; when
\* it returns Ok after a successful transform every member of the batch was
\* evaluated once, none for an empty batch
C16_BatchInOrder ==
    (stage = "multi" /\ Len(trace) >= 1) =>
        /\ trace[1].op = "try_transform_from"
        /\ Len(trace) >= 2 => trace[2].op = "multi_mutate"
        /\ \A k \in 3..Len(trace) :
              LET member == (k - 3) \div 4
                  step == ((k - 3) % 4) + 1
              IN  /\ member < num
                  /\ trace[k].op = PerMember[step]
                  /\ trace[k].it = member
                  /\ step > 2 => trace[k].id = trace[k - step + 2].id
        /\ (ret = "Ok" /\ Transformed("Ok")) =>
              /\ Len(trace) = 2 + 4 * num
              /\ Cardinality(Calls("evaluate_input")) = num

\* a batch of two was worked through: the first member entered the corpus,
\* the second did not, and each hook got its own member's id
C16_Witness ==
    /\ stage = "multi" /\ ret = "Ok" /\ num = 2
    /\ Len(trace) = 10
    /\ trace[4].id # None /\ trace[5].id = trace[4].id /\ trace[6].id = trace[4].id
    /\ trace[8].id = None /\ trace[9].id = None /\ trace[10].id = None

----------------------------------------------------------------------------
(* Claims about the observer's hooks *)

\* no site of the map has an execution or a logged value
MapIsEmpty(map) ==
    \A s \in Sites :
        /\ executions_for(map, s) = 0
        /\ usable_executions_for(map, s) = 0
        /\ values_of(map, s, 0) = None

\* C17: pre_exec resets the map: when it returns Ok every site has zero
\* executions and no logged value, whatever was logged before; it returns
\* an error only when the map's reset did, which left the map as it was
C17_PreExecResets ==
    [][pre_exec =>
         \/ obs_ret' = "Ok" /\ running' /\ MapIsEmpty(cmp_map')
         \/ obs_ret' = "Err" /\ ~running' /\ cmp_map' = cmp_map]_vars

\* an execution logged values that were reduced into the metadata, and
\* the pre_exec of the next execution has emptied the map
C17_Witness ==
    /\ running /\ obs_ret = "Ok"
    /\ MapIsEmpty(cmp_map)
    /\ logged > 0
    /\ IsSome(meta) /\ Len(Unwrap(meta)) > 0

\* C18: with add_meta = false post_exec returns Ok and leaves the run
\* state's metadata as it is (here: absent), for every map content and
\* every exit kind
C18_NoAccumulationNoMetadata ==
    [][(~add_meta /\ post_exec) => (meta' = meta /\ meta' = None /\ obs_ret' = "Ok")]_vars

\* post_exec has returned Ok over a map with logged values and there is
\* no metadata
C18_Witness ==
    /\ ~add_meta /\ ~running /\ reductions > 0
    /\ obs_ret = "Ok"
    /\ \A s \in Sites : usable_executions_for(cmp_map, s) > 0
    /\ meta = None

\* the count the observer was built with, or the number of sites of the map
ExternalCountOrLen == IF size = None THEN Cardinality(Sites) ELSE size[1]

\* C19: with add_meta = true post_exec leaves metadata in the run state
\* (created if it was absent) that is the reduction of exactly the sites
\* below the externally tracked count, or of all sites if there is none; a
\* site at or above the count contributes nothing, whatever it logged
C19_ReducesUsableSites ==
    /\ (add_meta /\ ~running /\ reductions > 0) => IsSome(meta)
    /\ Reduced =>
          Unwrap(meta) =
              add_from(<<>>, Cardinality(Sites),
                       [s \in Sites |-> IF s < ExternalCountOrLen THEN cmp_map[s]
                                        ELSE EmptySite])

\* with an external count of 1, site 1 has logged values and the list
\* holds the values of site 0 only
C19_Witness ==
    /\ Reduced /\ reductions = 1
    /\ size = Some(1)
    /\ usable_executions_for(cmp_map, 1) > 0
    /\ usable_executions_for(cmp_map, 0) = 2
    /\ Unwrap(meta) = LoggedValues(0)

----------------------------------------------------------------------------
(* Claims about CmplogBytes *)

\* C20: for a CmplogBytes built by from_buf_and_len(buf, len) with
\* len <= 32, as_slice returns exactly len bytes, the first len bytes of
\* buf in their order, and len() returns len
C20_SliceIsPrefix ==
    (IsSome(cmplog_bytes) /\ arg_len <= 32) =>
        /\ IsSome(slice_ret) =>
              /\ Len(Unwrap(slice_ret)) = arg_len
              /\ \A k \in 1..arg_len : Unwrap(slice_ret)[k] = arg_buf[k]
        /\ IsSome(len_ret) => Unwrap(len_ret) = arg_len

\* as_slice and len were both called on an object built with a length
\* strictly between 0 and 32 over a buffer with other bytes behind it
C20_Witness ==
    /\ IsSome(cmplog_bytes) /\ IsSome(slice_ret) /\ IsSome(len_ret)
    /\ arg_len = 5
    /\ Unwrap(slice_ret) = SubSeq(arg_buf, 1, 5)
    /\ arg_buf[6] # 0
    /\ Unwrap(len_ret) = 5

----------------------------------------------------------------------------
(* Claims about CmpValues *)

\* C21: for U8, U16, U32 and U64 to_u64_tuple returns the pair of the
\* operands zero-extended to 64 bits (the operand's own bytes, then zero
\* bytes), for Bytes it returns None; is_numeric is true exactly for the
\* four numeric variants, that is exactly when to_u64_tuple returns a pair
C21_WidenedPair ==
    IsSome(arg_val) =>
        LET v == Unwrap(arg_val)
        IN  /\ IsSome(tuple_ret) =>
                  LET t == Unwrap(tuple_ret)
                  IN  IF v.kind = "Bytes" THEN t = None
                      ELSE /\ IsSome(t)
                           /\ Len(Unwrap(t)) = 2
                           /\ \A k \in 1..8 :
                                 /\ Unwrap(t)[1][k] = IF k <= Width(v.kind) THEN v.v0[k] ELSE 0
                                 /\ Unwrap(t)[2][k] = IF k <= Width(v.kind) THEN v.v1[k] ELSE 0
                           /\ Len(Unwrap(t)[1]) = 8 /\ Len(Unwrap(t)[2]) = 8
            /\ IsSome(numeric_ret) => (Unwrap(numeric_ret) <=> v.kind \in NumericKinds)
            /\ (IsSome(numeric_ret) /\ IsSome(tuple_ret)) =>
                  (Unwrap(numeric_ret) <=> IsSome(Unwrap(tuple_ret)))

\* both operations were applied to a U32 pair whose operands use all four
\* bytes
C21_Witness ==
    /\ IsSome(arg_val) /\ IsSome(tuple_ret) /\ IsSome(numeric_ret)
    /\ Unwrap(arg_val).kind = "U32"
    /\ Unwrap(arg_val).v0 = <<255, 255, 255, 255>>
    /\ Unwrap(arg_val).v1 = <<1, 1, 1, 1>>
    /\ Unwrap(numeric_ret)
    /\ Unwrap(Unwrap(tuple_ret)) = <<<<255, 255, 255, 255, 0, 0, 0, 0>>, <<1, 1, 1, 1, 0, 0, 0, 0>>>>

----------------------------------------------------------------------------
(* Claims about the header *)

\* the bits of data that field f covers
BitSet(f) == Bits(f)[1]..Bits(f)[2]

\* the fields the header is said to pack, with their widths in bits
ClaimedWidths ==
    ("hits" :> 6) @@ ("shape" :> 5) @@ ("_type" :> 1) @@ ("attribute" :> 4)
        @@ ("overflow" :> 1)

----------------------------------------------------------------------------
(* Claims about the loop test *)

\* one of the four counters of site i, counted on the logged values
\* themselves, has reached the number of logged executions less two
SomeCounterReaches(i) ==
    \E op \in {0, 1}, dir \in {1, -1} :
        Cardinality(MonotoneSteps(i, op, dir)) >= usable_executions_for(cmp_map, i) - 2

\* C23: a visited site with more than 4 usable executions is discarded if
\* and only if one of the four counters (operand 0 up by one, operand 1 up
\* by one, operand 0 down by one, operand 1 down by one, counted over the
\* steps between successively logged pairs) is at least execs - 2; when
\* all four are below, every logged value of the site is in the list
C23_DiscardedIffCounterReaches ==
    Reduced =>
        \A i \in Visited :
            usable_executions_for(cmp_map, i) > 4 =>
                /\ SomeCounterReaches(i) => Discarded(i)
                /\ ~SomeCounterReaches(i) => (KeptInFull(i) /\ ~Discarded(i))

\* C23 witness: site 1 logged five pairs of which operand 1 went down by
\* one at three steps of four, which is execs - 2, no other counter got
\* there, and the site left nothing in the list
C23_Witness ==
    /\ Reduced
    /\ 1 \in Visited
    /\ usable_executions_for(cmp_map, 1) = 5
    /\ Cardinality(MonotoneSteps(1, 1, -1)) = 3
    /\ \A op \in {0, 1} : Cardinality(MonotoneSteps(1, op, 1)) < 3
    /\ Cardinality(MonotoneSteps(1, 0, -1)) < 3
    /\ Discarded(1)
    /\ ~KeptInFull(1)

\* the logged values of the sites i .. count - 1 that are in keep, site
\* after site in ascending index
RECURSIVE ConcatSites(_, _, _)
ConcatSites(keep, i, count) ==
    IF i >= count THEN <<>>
    ELSE (IF i \in keep THEN LoggedValues(i) ELSE <<>>) \o ConcatSites(keep, i + 1, count)

\* C24: after add_from the list is the concatenation, over the site
\* indices from 0 to usable_count - 1 in ascending order, of each site's
\* logged values in log order, each site giving all of its values or none;
\* a site detected as a loop counter gives none (and one with no usable
\* execution has none to give)
C24_ListIsConcatenation ==
    Reduced =>
        \E keep \in SUBSET Visited :
            /\ Unwrap(meta) = ConcatSites(keep, 0, usable_count)
            /\ \A i \in Visited :
                  (usable_executions_for(cmp_map, i) > 4 /\ SomeCounterReaches(i))
                  => i \notin keep

\* C24 witness: both sites are visited and logged different values, and
\* the list is the values of site 0 followed by those of site 1
C24_Witness ==
    /\ Reduced
    /\ Visited = {0, 1}
    /\ Len(LoggedValues(0)) >= 2 /\ Len(LoggedValues(1)) >= 2
    /\ LoggedValues(0) \o LoggedValues(1) # LoggedValues(1) \o LoggedValues(0)
    /\ Unwrap(meta) = LoggedValues(0) \o LoggedValues(1)

\* C28: add_from and post_exec leave the map alone: its execution counters
\* and logged values are the same after a reduction as before, a step that
\* empties a map that held something is pre_exec, and a post_exec that
\* follows a reduction with no reset in between gives the same metadata
C28_ReductionKeepsMap ==
    [][/\ post_exec => /\ cmp_map' = cmp_map
                       /\ Reduced => meta' = meta
       /\ (~MapIsEmpty(cmp_map) /\ MapIsEmpty(cmp_map')) => pre_exec]_vars

\* C28 witness: two reductions in a row of a map that holds values, and
\* the list holds values too
C28_Witness ==
    /\ Reduced
    /\ reductions = 2
    /\ ~MapIsEmpty(cmp_map)
    /\ Unwrap(meta) # <<>>
    /\ Unwrap(meta) = add_from(<<>>, usable_count, cmp_map)

----------------------------------------------------------------------------
(* Claims about byte-string comparisons in the loop test *)

\* the steps of site i from a numeric pair to the numeric pair logged next
\* at which operand op goes up (dir = 1) or down (dir = -1) by one
NumericMonotoneSteps(i, op, dir) ==
    {j \in 1..(Len(cmp_map[i].ring) - 1) :
        /\ is_numeric(LoggedValues(i)[j])
        /\ is_numeric(LoggedValues(i)[j + 1])
        /\ IF dir = 1 THEN IsSucc(Operand(i, j, op), Operand(i, j + 1, op))
                      ELSE IsSucc(Operand(i, j + 1, op), Operand(i, j, op))}

\* the values of site i of which the one logged before is a byte string
AfterBytes(i) ==
    {j \in 2..Len(cmp_map[i].ring) : ~is_numeric(LoggedValues(i)[j - 1])}

\* C25: in the loop test a Bytes value counts for nothing, neither the
\* step into it nor the step out of it, and it takes the place of the
\* remembered previous value: the counters count the steps between a
\* numeric pair and the numeric pair logged right after it. Hence a site
\* that logged byte strings only is kept, however often it executed
C25_BytesCountForNothing ==
    Reduced =>
        \A i \in Visited :
            /\ (\A j \in 1..Len(cmp_map[i].ring) : ~is_numeric(LoggedValues(i)[j]))
               => KeptInFull(i)
            /\ usable_executions_for(cmp_map, i) > 4 =>
                  LET reaches == \E op \in {0, 1}, dir \in {1, -1} :
                                     Cardinality(NumericMonotoneSteps(i, op, dir))
                                         >= usable_executions_for(cmp_map, i) - 2
                  IN  /\ reaches => Discarded(i)
                      /\ ~reaches => KeptInFull(i)

\* C25 witness: site 0 executed more often than its ring is deep, logged
\* byte strings only and is in the list in full
C25_Witness ==
    /\ Reduced
    /\ 0 \in Visited
    /\ executions_for(cmp_map, 0) > usable_executions_for(cmp_map, 0)
    /\ usable_executions_for(cmp_map, 0) > 4
    /\ \A j \in 1..Len(cmp_map[0].ring) : LoggedValues(0)[j].kind = "Bytes"
    /\ KeptInFull(0)
    /\ Len(Unwrap(meta)) >= usable_executions_for(cmp_map, 0)

\* site 1 counted 1, 2, 3, 4 with a byte string logged in between, and is
\* in the list in full
CounterAcrossBytesKept ==
    /\ Reduced
    /\ usable_executions_for(cmp_map, 1) = 5
    /\ AfterBytes(1) # {}
    /\ Cardinality({j \in 1..5 : is_numeric(LoggedValues(1)[j])}) = 4
    /\ Cardinality(NumericMonotoneSteps(1, 0, 1)) = 2
    /\ KeptInFull(1)

----------------------------------------------------------------------------
(* Claims about the width at which the loop test compares *)

\* the steps of site i at which operand op goes from the largest value of
\* its type to 0 (dir = 1) or from 0 to the largest value (dir = -1)
WrapSteps(i, op, dir) ==
    {j \in 1..(Len(cmp_map[i].ring) - 1) :
        LET from == IF dir = 1 THEN Operand(i, j, op) ELSE Operand(i, j + 1, op)
            to == IF dir = 1 THEN Operand(i, j + 1, op) ELSE Operand(i, j, op)
        IN  /\ \A k \in 1..Len(from) : from[k] = 255
            /\ \A k \in 1..Len(to) : to[k] = 0}

\* the steps that count: those by one within the range of the type, and
\* for 64-bit operands also those over the end of the range
CountedSteps(i, op, dir) ==
    MonotoneSteps(i, op, dir)
        \cup (IF profile = "U64" THEN WrapSteps(i, op, dir) ELSE {})

\* C27: the loop test compares the operands widened to 64 bits, so a step
\* by +1 or -1 wraps modulo 2^64 only: at a U8, U16 or U32 site the step
\* from the largest value of the type to 0 is no increment and the step
\* from 0 to the largest value no decrement, while at a U64 site the step
\* from 2^64 - 1 to 0 is an increment (and the one back a decrement)
C27_WrapsAtFullWidthOnly ==
    \A i \in Sites :
        LET execs == usable_executions_for(cmp_map, i)
            c == ScanSite(cmp_map, i, 0, execs, ScanStart)
        IN  /\ c.inc0 = Cardinality(CountedSteps(i, 0, 1))
            /\ c.inc1 = Cardinality(CountedSteps(i, 1, 1))
            /\ c.dec0 = Cardinality(CountedSteps(i, 0, -1))
            /\ c.dec1 = Cardinality(CountedSteps(i, 1, -1))
            /\ (Reduced /\ i \in Visited /\ execs > 4) =>
                  LET reaches == \E op \in {0, 1}, dir \in {1, -1} :
                                     Cardinality(CountedSteps(i, op, dir)) >= execs - 2
                  IN  /\ reaches => Discarded(i)
                      /\ ~reaches => KeptInFull(i)

\* C27 witness: a U8 site logged 254, 254, 255, 0, 1 in operand 0: two
\* steps by one and the step from 255 to 0, which is not counted, so that
\* the site is in the list in full
C27_Witness ==
    /\ Reduced
    /\ profile = "U8"
    /\ usable_executions_for(cmp_map, 0) = 5
    /\ WrapSteps(0, 0, 1) # {}
    /\ Cardinality(MonotoneSteps(0, 0, 1)) = 2
    /\ ScanSite(cmp_map, 0, 0, 5, ScanStart).inc0 = 2
    /\ KeptInFull(0)

\* a U64 site logged the same steps, 2^64 - 1 to 0 among them, has three
\* increments counted and is discarded
WrapCountedAtU64 ==
    /\ Reduced
    /\ profile = "U64"
    /\ usable_executions_for(cmp_map, 0) = 5
    /\ WrapSteps(0, 0, 1) # {}
    /\ Cardinality(MonotoneSteps(0, 0, 1)) = 2
    /\ ScanSite(cmp_map, 0, 0, 5, ScanStart).inc0 = 3
    /\ Discarded(0)

\* a U32 site went from 0 to the largest value in operand 1, which is
\* no decrement, and is in the list in full
WrapDownNotCountedAtU32 ==
    /\ Reduced
    /\ profile = "U32"
    /\ usable_executions_for(cmp_map, 1) = 5
    /\ WrapSteps(1, 1, -1) # {}
    /\ Cardinality(MonotoneSteps(1, 1, -1)) = 2
    /\ KeptInFull(1)

----------------------------------------------------------------------------
(* Claims about the input of a turn *)

\* C26: within one perform of the mutational stage the corpus entry is
\* transformed exactly once, before the first turn, and the mutate call of
\* every turn is handed a copy of that transformed input as the transform
\* made it, whatever the mutate calls of earlier turns did to theirs
C26_EveryTurnMutatesACopy ==
    (stage = "std" /\ trace # <<>>) =>
        /\ Calls("try_transform_from") = {1}
        /\ \A k \in Calls("mutate") :
              /\ IsSome(trace[k].arg)
              /\ Unwrap(trace[k].arg).mutations = 0
              /\ \A k2 \in Calls("mutate") : trace[k2].arg = trace[k].arg
              /\ phase = "in" =>
                    Unwrap(trace[k].arg) = TransformFrom(Unwrap(current_corpus_id))

\* C26 witness: the third turn of a perform whose first two mutate calls
\* both changed their input was handed the input without a mutation
C26_Witness ==
    /\ stage = "std"
    /\ Cardinality(Calls("try_transform_from")) = 1
    /\ Cardinality(CallsWith("mutate", "Mutated")) >= 2
    /\ \E k \in Calls("mutate") :
          /\ trace[k].it = 2
          /\ LeftBehind(SubSeq(trace, 1, k - 1), TransformFrom(0)).mutations = 1
          /\ Unwrap(trace[k].arg).mutations = 0

----------------------------------------------------------------------------
(* Claims about the guards' numbering *)

\* the guards of the sections announced so far
Numbered == UNION {Cells(r) : r \in registered}

\* C29: without pointer maps, a call of the init function on a section
\* that is apart from those announced before and holds zeroes numbers its
\* guards consecutively from the MAX_EDGES_FOUND it finds and leaves
\* MAX_EDGES_FOUND behind the last id; as long as the process lives all
\* guards numbered so far have ids that differ from each other and are
\* below the length of the edges map, and MAX_EDGES_FOUND is at most that
\* length: the call that would take it further ends the process
C29_GuardsNumberedApart ==
    [][/\ ~aborted' => MAX_EDGES_FOUND' <= EdgesMapLen
       /\ \A r \in Ranges \ registered :
             (r[1] < r[2] /\ sanitizer_cov_trace_pc_guard_init(r[1], r[2])) =>
                 IF aborted'
                 THEN MAX_EDGES_FOUND + (r[2] - r[1]) > EdgesMapLen
                 ELSE /\ \A g \in Cells(r) : guards'[g] = MAX_EDGES_FOUND + (g - r[1])
                      /\ MAX_EDGES_FOUND' = MAX_EDGES_FOUND + (r[2] - r[1])
                      /\ \A g \in Numbered' : guards'[g] < EdgesMapLen
                      /\ \A g, h \in Numbered' : g # h => guards'[g] # guards'[h]]_vars

\* C29 witness: the section of guards 2 and 3 was numbered first and the
\* section of guards 0 and 1 after it, which filled the map
C29_Witness ==
    /\ ~aborted
    /\ registered = {<<0, 2>>, <<2, 4>>}
    /\ guards[2] = 0 /\ guards[3] = 1 /\ guards[0] = 2 /\ guards[1] = 3
    /\ MAX_EDGES_FOUND = 4

\* the assertion ended the process: the guard written last holds the
\* length of the map and MAX_EDGES_FOUND is one beyond it
AbortedByAssertion ==
    /\ aborted
    /\ MAX_EDGES_FOUND = EdgesMapLen + 1
    /\ \E g \in DOMAIN guards : guards[g] = EdgesMapLen

\* C30: a call of the init function on a section that was announced
\* before changes no guard of the section and leaves MAX_EDGES_FOUND as it
\* is, whichever section it is, the first one announced included
C30_SecondInitChangesNothing ==
    [][\A r \in registered :
           sanitizer_cov_trace_pc_guard_init(r[1], r[2]) =>
               /\ \A g \in Cells(r) : guards'[g] = guards[g]
               /\ MAX_EDGES_FOUND' = MAX_EDGES_FOUND]_vars

\* the section announced first, guards 0 and 1, was announced again and
\* holds the ids 2 and 3
FirstSectionRenumbered ==
    /\ ~aborted
    /\ registered = {<<0, 2>>}
    /\ guards[0] = 2 /\ guards[1] = 3
    /\ MAX_EDGES_FOUND = 4

----------------------------------------------------------------------------
(* Claims about the counters of the stats stage *)

\* the entry the stats stage is run on was never scheduled
OnFreshEntry ==
    /\ IsSome(current_corpus_id)
    /\ corpus[Unwrap(current_corpus_id) + 1].scheduled_count = 0

\* has_fuzzed_size grows by one in a perform on an entry whose
\* scheduled_count is 0 and stays as it is in every other perform
FuzzedGrowsByOne ==
    [][StatsPerform =>
           has_fuzzed_size' = has_fuzzed_size + (IF OnFreshEntry THEN 1 ELSE 0)]_vars

\* C31: after any sequence of perform calls of the stats stage
\* has_fuzzed_size, is_favored_size and the imported count are at most the
\* corpus count when they are subtracted from it, so that no subtraction
\* underflows (none panics, none wraps); has_fuzzed_size grows by one in a
\* perform on an entry whose scheduled_count is 0 and is unchanged otherwise
C31_SubtractionsNeverUnderflow ==
    [][StatsPerform =>
           /\ has_fuzzed_size' = has_fuzzed_size + (IF OnFreshEntry THEN 1 ELSE 0)
           /\ OnFreshEntry =>
                 /\ has_fuzzed_size' <= Len(corpus)
                 /\ is_favored_size' <= Len(corpus)
                 /\ imported <= Len(corpus)
                 /\ ret' # "Panic"
                 /\ own_finds_size' >= 0]_vars

\* perform ran twice on the one entry of the corpus before the fuzzer's
\* loop counted a round for it, in a build that checks overflow: the
\* subtraction corpus_size - has_fuzzed_size panicked
PendingUnderflowPanics ==
    /\ Len(corpus) = 1
    /\ corpus[1].scheduled_count = 0
    /\ overflow_checks
    /\ has_fuzzed_size = 2
    /\ stage = "stats" /\ ret = "Panic"

\* the same in a build that wraps: perform returned Ok having computed
\* pending from a has_fuzzed_size above the corpus count
PendingUnderflowWraps ==
    /\ Len(corpus) = 1
    /\ corpus[1].scheduled_count = 0
    /\ ~overflow_checks
    /\ has_fuzzed_size = 2
    /\ stage = "stats" /\ ret = "Ok"

====
